---- MODULE Spec2Model ----
(***************************************************************************)
(* Column generation, day caches and day-by-day consolidation of the       *)
(* data generator (column_space.py, data_generator.py, output_writers.py). *)
(*                                                                         *)
(* Numbers: a Python float is kept as an integer count of thousandths      *)
(* (0.013 is 13, 1.0 is 1000); a Python int is kept as itself.             *)
(* A cached value is a record                                              *)
(*    [k   : "float" | "int" | "str" | "none",    the Python type          *)
(*     pre : "" | "sometimes-" | "all-",          prefix of a str          *)
(*     bk  : "float" | "int" | "empty" | "word" | "none",                   *)
(*                                         what the text of a str spells   *)
(*     v   : integer,                      the number, or the word's id    *)
(*     n   : number of words of a word/phrase, 0 otherwise]                *)
(***************************************************************************)
EXTENDS Integers, Sequences, FiniteSets, TLC

(***************************************************************************)
(* Bounds of the model.                                                    *)
(***************************************************************************)
MaxCols == 2
MaxDays == 2
MaxRows == 2
MaxValues == 3
MaxFlags == 2
MaxBatch == 2
MaxWorkers == 2
MaxFaults == 1
CpuCount == 1
WordChoices == 2
MaxQueryDays == 4
MaxCalls == 2
MaxClockDays == 2
MaxFileLen == 3
MaxChunk == 2

(***************************************************************************)
(* Program constants.                                                      *)
(***************************************************************************)
ScaleFactor == 40
IntegerFactor == 100
LongWords == 20
ShortToLongWords == 5
SecondsPerDay == 86400
GiveUpAfter == 1000

Thousand == 10 * 100

(***************************************************************************)
(* config.py: enumerations.                                                *)
(***************************************************************************)
DataType == {"INTEGER", "FLOAT", "STRING_LONG", "STRING_CATEGORY"}

TransitionType ==
    {"VALUES_SCALE", "VALUES_ALL_STRINGS", "VALUES_SOME_STRINGS", "SCHEMA_NAME",
     "STRING_LONG_TO_SMALL", "STRING_SMALL_TO_LONG", "NULLS_HIGH", "ZEROS_HIGH"}

DistributionType == {"INCREMENT", "UNIFORM", "NORMAL"}

(***************************************************************************)
(* Values.                                                                 *)
(***************************************************************************)
PyFloat(m) == [k |-> "float", pre |-> "", bk |-> "float", v |-> m, n |-> 0]
PyInt(i) == [k |-> "int", pre |-> "", bk |-> "int", v |-> i, n |-> 0]
EmptyStr == [k |-> "str", pre |-> "", bk |-> "empty", v |-> 0, n |-> 0]
Word(id, words) == [k |-> "str", pre |-> "", bk |-> "word", v |-> id, n |-> words]
None == [k |-> "none", pre |-> "", bk |-> "none", v |-> 0, n |-> 0]

IsNumber(x) == x.k \in {"int", "float"}

\* isinstance(v, (int, float)) and v == 0
IsZero(x) == IsNumber(x) /\ x.v = 0

\* Python str(x): the text of a str is itself, a number's text spells the number.
Str(x) == IF x.k = "str" THEN x ELSE [x EXCEPT !.k = "str"]

\* f"<prefix>{x}"
Prefixed(prefix, x) == [Str(x) EXCEPT !.pre = prefix \o x.pre]

\* Integer division truncating toward zero, as Python's int() of a quotient.
TruncDiv(a, b) == IF a >= 0 THEN a \div b ELSE -((-a) \div b)

Min(a, b) == IF a < b THEN a ELSE b
Max(a, b) == IF a > b THEN a ELSE b

(***************************************************************************)
(* column_space.py: ColumnSpace.  A column configuration is a record       *)
(*   [name, data_type, transition_percentage, transition_type,             *)
(*    distribution_flags]                                                  *)
(* with transition_percentage in hundredths (0.5 is 50) and the two flag   *)
(* words as the sets of their bits.                                        *)
(***************************************************************************)
has_distribution(config, mask) == (config.distribution_flags \cap mask) # {}

\* int(total_days * transition_percentage)
TransitionDay(config, total_days) ==
    (total_days * config.transition_percentage) \div 100

\* A gate that looks at whether the column has any flag at all.
HasTransitionAnyFlag(config, day_index, total_days, mask) ==
    day_index >= TransitionDay(config, total_days) /\ config.transition_type # {}

\* A gate that is open on the transition day only.
HasTransitionOnDayOnly(config, day_index, total_days, mask) ==
    /\ day_index = TransitionDay(config, total_days)
    /\ (config.transition_type \cap mask) # {}

has_transition(config, day_index, total_days, mask) ==
    IF day_index < TransitionDay(config, total_days)
    THEN FALSE
    ELSE (config.transition_type \cap mask) # {}

\* A field name that is prefixed from the first day on.
FieldNameFromFirstDay(config, day_index, total_days) ==
    IF "SCHEMA_NAME" \in config.transition_type
    THEN "new-" \o config.name
    ELSE config.name

get_field_name(config, day_index, total_days) ==
    IF has_transition(config, day_index, total_days, {"SCHEMA_NAME"})
    THEN "new-" \o config.name
    ELSE config.name

\* The words one call of _generate_word can return (the word source is random).
GenerateWord(config, day_index, total_days) ==
    LET cat == {Word(id, 1) : id \in 1..WordChoices}
        phrase(words) == {Word(id, words) : id \in 1..WordChoices}
    IN  IF config.data_type = "STRING_LONG"
        THEN IF has_transition(config, day_index, total_days, {"STRING_LONG_TO_SMALL"})
             THEN cat
             ELSE phrase(LongWords)
        ELSE IF config.data_type = "STRING_CATEGORY"
        THEN IF has_transition(config, day_index, total_days, {"STRING_SMALL_TO_LONG"})
             THEN phrase(ShortToLongWords)
             ELSE cat
        ELSE cat

\* Draws of np.random.rand and np.random.normal(0, 100), in thousandths.
UniformDraws == {0, 5}
NormalDraws == {-150500, 20250}

\* np.arange(0, num_values, 1.0)
Arange(num_values) == [i \in 1..num_values |-> PyFloat((i - 1) * Thousand)]

\* The arrays _generate_numeric_distribution(num_values) can return.
GenerateNumericDistribution(config, num_values) ==
    IF has_distribution(config, {"INCREMENT"})
    THEN {Arange(num_values)}
    ELSE IF has_distribution(config, {"UNIFORM"})
    THEN {[i \in 1..num_values |-> PyFloat(draw[i])] :
              draw \in [1..num_values -> UniformDraws]}
    ELSE IF has_distribution(config, {"NORMAL"})
    THEN {[i \in 1..num_values |-> PyFloat(draw[i])] :
              draw \in [1..num_values -> NormalDraws]}
    ELSE {[i \in 1..num_values |-> PyFloat(draw[i])] :
              draw \in [1..num_values -> UniformDraws]}

\* v * 40 if isinstance(v, (int, float)) else v
ScaleValue(x) == IF IsNumber(x) THEN [x EXCEPT !.v = x.v * ScaleFactor] ELSE x

\* int(v * 100) if isinstance(v, (int, float)) and v != 0 and v != "" else v
ConvertValue(x) ==
    IF IsNumber(x) /\ x.v # 0
    THEN IF x.k = "float"
         THEN PyInt(TruncDiv(x.v * IntegerFactor, Thousand))
         ELSE PyInt(x.v * IntegerFactor)
    ELSE x

\* _replace_half: flip[i] is the outcome of random.random() > 0.5 for value i.
ReplaceHalf(values, new_value, flip) ==
    [i \in 1..Len(values) |-> IF flip[i] THEN new_value ELSE values[i]]

_convert_types(config, values) ==
    IF config.data_type = "INTEGER"
    THEN [i \in 1..Len(values) |-> ConvertValue(values[i])]
    ELSE values

(***************************************************************************)
(* The random draws of one _apply_transitions call: rnd.zero_gate and      *)
(* rnd.null_gate are the two random.random() >= 0.5 batch gates,           *)
(* rnd.zero_flip, rnd.null_flip the per-value draws of _replace_half,      *)
(* rnd.some_flip the per-value random.choice([True, False]).               *)
(***************************************************************************)
ScaleStep(config, values, day_index, total_days) ==
    IF has_transition(config, day_index, total_days, {"VALUES_SCALE"})
    THEN [i \in 1..Len(values) |-> ScaleValue(values[i])]
    ELSE values

ZerosStep(config, values, day_index, total_days, rnd) ==
    IF has_transition(config, day_index, total_days, {"ZEROS_HIGH"}) /\ rnd.zero_gate
    THEN ReplaceHalf(values, PyInt(0), rnd.zero_flip)
    ELSE values

NullsStep(config, values, day_index, total_days, rnd) ==
    IF has_transition(config, day_index, total_days, {"NULLS_HIGH"}) /\ rnd.null_gate
    THEN ReplaceHalf(values, EmptyStr, rnd.null_flip)
    ELSE values

\* A step that checks the two string flags one after the other.
StringsStepBoth(config, values, day_index, total_days, rnd) ==
    LET some == IF has_transition(config, day_index, total_days, {"VALUES_SOME_STRINGS"})
                THEN [i \in 1..Len(values) |->
                         IF rnd.some_flip[i] THEN Prefixed("sometimes-", values[i])
                         ELSE values[i]]
                ELSE values
    IN  IF has_transition(config, day_index, total_days, {"VALUES_ALL_STRINGS"})
        THEN [i \in 1..Len(some) |-> Prefixed("all-", some[i])]
        ELSE some

StringsStep(config, values, day_index, total_days, rnd) ==
    IF has_transition(config, day_index, total_days, {"VALUES_SOME_STRINGS"})
    THEN [i \in 1..Len(values) |->
             IF rnd.some_flip[i] THEN Prefixed("sometimes-", values[i]) ELSE values[i]]
    ELSE IF has_transition(config, day_index, total_days, {"VALUES_ALL_STRINGS"})
    THEN [i \in 1..Len(values) |-> Prefixed("all-", values[i])]
    ELSE values

_apply_transitions(config, values, day_index, total_days, rnd) ==
    StringsStep(config,
        NullsStep(config,
            ZerosStep(config,
                ScaleStep(config, values, day_index, total_days),
                day_index, total_days, rnd),
            day_index, total_days, rnd),
        day_index, total_days, rnd)

\* The draws that can change the outcome of _apply_transitions on num values.
Draws(config, day_index, total_days, num) ==
    LET active(flag) == has_transition(config, day_index, total_days, {flag})
        gate(flag) == IF active(flag) THEN BOOLEAN ELSE {FALSE}
        flips(on) == IF on THEN [1..num -> BOOLEAN] ELSE {[i \in 1..num |-> FALSE]}
    IN  {[zero_gate |-> zg, zero_flip |-> zf, null_gate |-> ng, null_flip |-> nf,
          some_flip |-> sf] :
            zg \in gate("ZEROS_HIGH"), ng \in gate("NULLS_HIGH"),
            zf \in flips(active("ZEROS_HIGH")), nf \in flips(active("NULLS_HIGH")),
            sf \in flips(active("VALUES_SOME_STRINGS"))}

\* A batch loop that always generates a whole batch.
BatchSizeWhole(batch_size, num_values, values_generated) == batch_size

\* min(batch_size, num_values - values_generated)
BatchSizeActual(batch_size, num_values, values_generated) ==
    Min(batch_size, num_values - values_generated)

\* The raw batches "Generate batch of data" can produce, before any transform.
RawBatches(config, day_index, total_days, batch_size_actual) ==
    IF config.data_type \in {"STRING_LONG", "STRING_CATEGORY"}
    THEN [1..batch_size_actual -> GenerateWord(config, day_index, total_days)]
    ELSE GenerateNumericDistribution(config, batch_size_actual)

\* One pass of the loop body of generate_day_data on the raw batch `raw`.
BatchValues(config, raw, day_index, total_days, rnd) ==
    IF config.data_type \in {"STRING_LONG", "STRING_CATEGORY"}
    THEN _apply_transitions(config, raw, day_index, total_days, rnd)
    ELSE _apply_transitions(config, _convert_types(config, raw),
                            day_index, total_days, rnd)

\* _get_cache_path: the cache of (name, day) is the file .<name>-<day>.cache
CacheKey(config, day_index) == <<config.name, day_index>>

(***************************************************************************)
(* State.                                                                  *)
(*   config            GeneratorConfig: num_days, cache_batch_size,        *)
(*                     max_workers (0 is None), output_format,             *)
(*                     cleanup_cache, columns                              *)
(*   pc                where generate() is                                 *)
(*   rows_per_day_map  DataGenerator.rows_per_day_map                      *)
(*   seq               the loop variables of single-threaded generation    *)
(*   future            per column, the state of its executor task          *)
(*   consumed          the futures as_completed has already yielded        *)
(*   call              per column, the running generate_day_data call      *)
(*   samples           per column, the raw samples drawn by that call      *)
(*   cache             the cache files, by (column name, day)              *)
(*   handles           the connections _open_cache_connections holds       *)
(*   write_day         day_index of the loop of _write_output_data         *)
(*   out               the output files written, by day                    *)
(*   metrics           GenerationMetrics                                   *)
(*   faults            environment failures so far (sqlite, file system)   *)
(*   exc               the exception that left the call made by the caller,*)
(*                     "none" while there is none                          *)
(*   ret               what the direct calls of the caller have returned   *)
(*   now               time.time(), in seconds since the process started   *)
(*   utime             the time os.utime has set on an output file, by day *)
(*   english           the AmericanEnglishDict and its _get_random_word    *)
(*                     call: the bytes of the file, where the file object  *)
(*                     is, how far it has decoded, the counter i           *)
(***************************************************************************)
VARIABLES config, pc, rows_per_day_map, seq, future, consumed, call, samples,
          cache, handles, write_day, out, metrics, faults, exc, ret, now, utime,
          english

vars == <<config, pc, rows_per_day_map, seq, future, consumed, call, samples,
          cache, handles, write_day, out, metrics, faults, exc, ret, now, utime,
          english>>

NumCols == Len(config.columns)
Cols == 1..NumCols
Days == 0..(config.num_days - 1)
Column(c) == config.columns[c]

NoCache == [exists |-> FALSE, open |-> FALSE, rows |-> <<>>, pending |-> <<>>]
NoCall == [pc |-> "idle", day_index |-> 0, num_values |-> 0, values_generated |-> 0,
           conn |-> "own"]
NoHandles == [day_index |-> -1, names |-> {}]
NoRet == <<>>
NoDict == [pc |-> "idle", data |-> <<>>, chunk |-> 1, start |-> 0, pos |-> 0,
           decoded |-> 0, i |-> 0, outcome |-> "none", line |-> <<>>]

\* The call generate_day_data(day_index, num_values, ...) at its first line.
EnterCall(day_index, num_values) ==
    [pc |-> "enter", day_index |-> day_index, num_values |-> num_values,
     values_generated |-> 0, conn |-> "own"]

(***************************************************************************)
(* Two calls whose columns have the same name use the same cache path.     *)
(* call[c].conn says what the connection of call c is attached to:         *)
(*   "own"     the file at the path, which no other call has touched       *)
(*   "shared"  the file at the path, which another call had or has open    *)
(*   "orphan"  a file another call has unlinked from the path              *)
(***************************************************************************)
\* Call w is inside its with block on the cache path of call c.
SameKey(c, w) ==
    /\ w # c
    /\ call[w].pc = "loop"
    /\ CacheKey(Column(w), call[w].day_index) = CacheKey(Column(c), call[c].day_index)

OthersAttached(c) == \E w \in Cols : SameKey(c, w) /\ call[w].conn # "orphan"

\* The uncommitted rows of the file at the path are those of call c.
HoldsRows(c) ==
    \/ call[c].conn = "own"
    \/ call[c].conn = "shared" /\ call[c].values_generated > 0

\* sqlite lets one connection at a time hold uncommitted rows of a file.
LockFree(c) ==
    \A w \in Cols :
        (SameKey(c, w) /\ call[w].conn # "orphan") => call[w].values_generated = 0

\* os.unlink(cache_path) by call c: the connections that were on the file
\* keep the unlinked file.
Unlinked(c, mine) ==
    [w \in Cols |-> IF w = c THEN mine
                    ELSE IF SameKey(c, w) THEN [call[w] EXCEPT !.conn = "orphan"]
                    ELSE call[w]]

\* conn.close() by call c, `rows` being the committed rows it leaves.
ClosedBy(c, file, rows) ==
    IF call[c].conn = "orphan"
    THEN file
    ELSE [exists |-> TRUE, open |-> OthersAttached(c), rows |-> rows,
          pending |-> IF HoldsRows(c) THEN <<>> ELSE file.pending]

(***************************************************************************)
(* ColumnSpace.generate_day_data, step by step.                            *)
(***************************************************************************)
\* A _cache_connection that connects without unlinking the file at the path:
\* CREATE TABLE IF NOT EXISTS leaves the rows of the old table in place.
CacheOpenKeepsFile(c) ==
    /\ call[c].pc = "enter"
    /\ cache' = [cache EXCEPT ![CacheKey(Column(c), call[c].day_index)] =
                    [exists |-> TRUE, open |-> TRUE, rows |-> @.rows, pending |-> <<>>]]
    /\ call' = [call EXCEPT ![c].pc = "loop", ![c].values_generated = 0]
    /\ samples' = [samples EXCEPT ![c] = <<>>]
    /\ UNCHANGED <<config, english, now, utime, exc, ret, pc, rows_per_day_map, seq, future, consumed, handles,
                   write_day, out, metrics, faults>>

\* _cache_connection up to its yield: a stale cache file is unlinked, the
\* file is created and holds an empty table.
CacheOpen(c) ==
    /\ call[c].pc = "enter"
    /\ cache' = [cache EXCEPT ![CacheKey(Column(c), call[c].day_index)] =
                    [exists |-> TRUE, open |-> TRUE, rows |-> <<>>, pending |-> <<>>]]
    /\ call' = Unlinked(c, [call[c] EXCEPT
                                !.pc = "loop", !.values_generated = 0,
                                !.conn = IF \E w \in Cols : SameKey(c, w)
                                         THEN "shared" ELSE "own"])
    /\ samples' = [samples EXCEPT ![c] = <<>>]
    /\ UNCHANGED <<config, english, now, utime, exc, ret, pc, rows_per_day_map, seq, future, consumed, handles,
                   write_day, out, metrics, faults>>

\* sqlite3.connect fails after the stale file was unlinked: CacheError.
CacheOpenFails(c) ==
    /\ call[c].pc = "enter"
    /\ faults < MaxFaults
    /\ faults' = faults + 1
    /\ cache' = [cache EXCEPT ![CacheKey(Column(c), call[c].day_index)] = NoCache]
    /\ call' = Unlinked(c, [call[c] EXCEPT !.pc = "raised"])
    /\ UNCHANGED <<config, english, now, utime, exc, ret, pc, rows_per_day_map, seq, future, consumed, samples,
                   handles, write_day, out, metrics>>

\* One pass of the while loop: a batch is generated, transformed and inserted.
GenerateBatch(c) ==
    /\ call[c].pc = "loop"
    /\ call[c].values_generated < call[c].num_values
    /\ call[c].conn = "shared" => LockFree(c)
    /\ LET col == Column(c)
           day == call[c].day_index
           size == BatchSizeActual(config.cache_batch_size, call[c].num_values,
                                   call[c].values_generated)
       IN  \E raw \in RawBatches(col, day, config.num_days, size) :
           \E rnd \in Draws(col, day, config.num_days, size) :
             LET batch_values == BatchValues(col, raw, day, config.num_days, rnd)
             IN  /\ cache' = IF call[c].conn = "orphan"
                              THEN cache
                              ELSE [cache EXCEPT ![CacheKey(col, day)].pending =
                                       @ \o batch_values]
                 /\ call' = [call EXCEPT ![c].values_generated =
                                 @ + Len(batch_values)]
                 /\ samples' = [samples EXCEPT ![c] = @ \o raw]
    /\ UNCHANGED <<config, english, now, utime, exc, ret, pc, rows_per_day_map, seq, future, consumed, handles,
                   write_day, out, metrics, faults>>

\* An insert fails: CacheError; the connection is closed without a commit,
\* which rolls the inserted rows back.
GenerateBatchFails(c) ==
    /\ call[c].pc = "loop"
    /\ call[c].values_generated < call[c].num_values
    /\ faults < MaxFaults
    /\ faults' = faults + 1
    /\ cache' = [cache EXCEPT ![CacheKey(Column(c), call[c].day_index)] =
                    ClosedBy(c, @, @.rows)]
    /\ call' = [call EXCEPT ![c].pc = "raised"]
    /\ UNCHANGED <<config, english, now, utime, exc, ret, pc, rows_per_day_map, seq, future, consumed, samples,
                   handles, write_day, out, metrics>>

\* A close without the commit: the inserted rows are rolled back.
CommitMissing(rows, pending) == rows

\* conn.commit(): the rows a reader of the file sees after the commit.
Committed(rows, pending) == rows \o pending

\* The loop is over: conn.commit(), then _cache_connection closes.
CommitClose(c) ==
    /\ call[c].pc = "loop"
    /\ call[c].values_generated >= call[c].num_values
    /\ cache' = [cache EXCEPT ![CacheKey(Column(c), call[c].day_index)] =
                    ClosedBy(c, @, IF HoldsRows(c)
                                   THEN Committed(@.rows, @.pending)
                                   ELSE @.rows)]
    /\ call' = [call EXCEPT ![c].pc = "returned"]
    /\ UNCHANGED <<config, english, now, utime, exc, ret, pc, rows_per_day_map, seq, future, consumed, samples,
                   handles, write_day, out, metrics, faults>>

\* sqlite3.connect on a path another call has just created: no unlink, both
\* connections are on the same file.
CacheJoin(c) ==
    /\ call[c].pc = "enter"
    /\ OthersAttached(c)
    /\ call' = [w \in Cols |->
                   IF w = c
                   THEN [call[c] EXCEPT !.pc = "loop", !.values_generated = 0,
                                        !.conn = "shared"]
                   ELSE IF SameKey(c, w) /\ call[w].conn # "orphan"
                   THEN [call[w] EXCEPT !.conn = "shared"]
                   ELSE call[w]]
    /\ samples' = [samples EXCEPT ![c] = <<>>]
    /\ UNCHANGED <<config, english, now, utime, exc, ret, pc, rows_per_day_map, seq, future, consumed, cache,
                   handles, write_day, out, metrics, faults>>

\* An sqlite call on a file that is not the connection's own fails ("database
\* is locked", "disk I/O error"): CacheError.  Rows the connection had
\* inserted may or may not have reached the file.
SharedCacheFails(c) ==
    /\ call[c].pc = "loop"
    /\ call[c].conn # "own"
    /\ \E kept \in BOOLEAN :
          cache' = [cache EXCEPT ![CacheKey(Column(c), call[c].day_index)] =
                       ClosedBy(c, @, IF kept /\ HoldsRows(c)
                                      THEN Committed(@.rows, @.pending)
                                      ELSE @.rows)]
    /\ call' = [call EXCEPT ![c].pc = "raised"]
    /\ UNCHANGED <<config, english, now, utime, exc, ret, pc, rows_per_day_map, seq, future, consumed, samples,
                   handles, write_day, out, metrics, faults>>

ColumnStep(c) ==
    \/ CacheOpen(c)
    \/ CacheOpenFails(c)
    \/ CacheJoin(c)
    \/ GenerateBatch(c)
    \/ GenerateBatchFails(c)
    \/ SharedCacheFails(c)
    \/ CommitClose(c)

(***************************************************************************)
(* data_generator.py: DataGenerator.generate and what it calls.            *)
(***************************************************************************)
\* A planner that keeps the count it has drawn.
ClampMissing(num_rows) == num_rows

\* max(1, num_rows)
ClampRows(num_rows) == Max(1, num_rows)

\* output_writers.py: OutputWriterFactory._writers
SupportedFormats == {"csv", "json", "jsonl"}

\* OutputWriterFactory.create_writer: the writer of the format, or the
\* exception it raises.
create_writer(format_name) ==
    IF format_name \notin SupportedFormats THEN "OutputError" ELSE format_name

\* _generate_column_data has returned and _write_output_data begins: the
\* writer is created before the loop over the days; an OutputError of
\* create_writer reaches generate()'s handler.
BeginWriteOutput ==
    IF create_writer(config.output_format) = "OutputError"
    THEN /\ metrics' = [metrics EXCEPT !.errors_encountered = @ + 1]
         /\ pc' = "raised"
         /\ exc' = "DataGenerationError"
         /\ UNCHANGED write_day
    ELSE /\ pc' = "write"
         /\ write_day' = 0
         /\ UNCHANGED <<metrics, exc>>

\* generate(), lines 256-261: the row count of every day is drawn (num_rows
\* is what the random variation and reduction leave) and clamped.
GenerateRowsPerDayMap ==
    /\ pc = "start"
    /\ \E num_rows \in [Days -> 0..MaxRows] :
          rows_per_day_map' = [d \in Days |-> ClampRows(num_rows[d])]
    /\ pc' = "generate"
    /\ UNCHANGED <<config, english, now, utime, exc, ret, seq, future, consumed, call, samples, cache, handles,
                   write_day, out, metrics, faults>>

\* --- _generate_column_data, max_workers == 1 ----------------------------
StartSequential ==
    /\ pc = "generate"
    /\ config.max_workers = 1
    /\ pc' = "generate_seq"
    /\ seq' = [col |-> 1, day_index |-> 0]
    /\ UNCHANGED <<config, english, now, utime, exc, ret, rows_per_day_map, future, consumed, call, samples, cache,
                   handles, write_day, out, metrics, faults>>

SeqCall ==
    /\ pc = "generate_seq"
    /\ seq.col <= NumCols
    /\ call[seq.col].pc = "idle"
    /\ call' = [call EXCEPT ![seq.col] =
                   EnterCall(seq.day_index, rows_per_day_map[seq.day_index])]
    /\ UNCHANGED <<config, english, now, utime, exc, ret, pc, rows_per_day_map, seq, future, consumed, samples,
                   cache, handles, write_day, out, metrics, faults>>

SeqReturn ==
    /\ pc = "generate_seq"
    /\ seq.col <= NumCols
    /\ call[seq.col].pc = "returned"
    /\ metrics' = [metrics EXCEPT !.cache_operations = @ + 1]
    /\ call' = [call EXCEPT ![seq.col] = NoCall]
    /\ seq' = IF seq.day_index + 1 < config.num_days
              THEN [seq EXCEPT !.day_index = @ + 1]
              ELSE [col |-> seq.col + 1, day_index |-> 0]
    /\ UNCHANGED <<config, english, now, utime, exc, ret, pc, rows_per_day_map, future, consumed, samples, cache,
                   handles, write_day, out, faults>>

\* The exception leaves _generate_column_data and reaches generate()'s handler.
SeqRaise ==
    /\ pc = "generate_seq"
    /\ seq.col <= NumCols
    /\ call[seq.col].pc = "raised"
    /\ metrics' = [metrics EXCEPT !.errors_encountered = @ + 1]
    /\ pc' = "raised"
    /\ exc' = "DataGenerationError"
    /\ UNCHANGED <<config, english, now, utime, ret, rows_per_day_map, seq, future, consumed, call, samples,
                   cache, handles, write_day, out, faults>>

SeqDone ==
    /\ pc = "generate_seq"
    /\ seq.col > NumCols
    /\ BeginWriteOutput
    /\ UNCHANGED <<config, english, now, utime, ret, rows_per_day_map, seq, future, consumed, call, samples,
                   cache, handles, out, faults>>

\* --- _generate_column_data, multi-process --------------------------------
\* self.config.max_workers or os.cpu_count()
PoolSize == IF config.max_workers = 0 THEN CpuCount ELSE config.max_workers

Finished(c) == future[c] \in {"done", "failed"}

SubmitTasks ==
    /\ pc = "generate"
    /\ config.max_workers # 1
    /\ future' = [c \in Cols |-> "pending"]
    /\ pc' = "as_completed"
    /\ UNCHANGED <<config, english, now, utime, exc, ret, rows_per_day_map, seq, consumed, call, samples, cache,
                   handles, write_day, out, metrics, faults>>

\* The executor hands the oldest pending task to a free worker process, as
\* long as it has not been shut down with its pending tasks cancelled.
ExecutorRuns == pc \in {"as_completed", "shutdown"}

TaskStart(c) ==
    /\ ExecutorRuns
    /\ future[c] = "pending"
    /\ \A b \in Cols : b < c => future[b] # "pending"
    /\ Cardinality({b \in Cols : future[b] = "running"}) < PoolSize
    /\ future' = [future EXCEPT ![c] = "running"]
    /\ call' = [call EXCEPT ![c] = EnterCall(0, rows_per_day_map[0])]
    /\ UNCHANGED <<config, english, now, utime, exc, ret, pc, rows_per_day_map, seq, consumed, samples, cache,
                   handles, write_day, out, metrics, faults>>

\* generate_column_worker: the next day, or the return after the last one.
WorkerReturn(c) ==
    /\ future[c] = "running"
    /\ call[c].pc = "returned"
    /\ IF call[c].day_index + 1 < config.num_days
       THEN /\ call' = [call EXCEPT ![c] =
                           EnterCall(call[c].day_index + 1,
                                     rows_per_day_map[call[c].day_index + 1])]
            /\ UNCHANGED future
       ELSE /\ call' = [call EXCEPT ![c] = NoCall]
            /\ future' = [future EXCEPT ![c] = "done"]
    /\ UNCHANGED <<config, english, now, utime, exc, ret, pc, rows_per_day_map, seq, consumed, samples, cache,
                   handles, write_day, out, metrics, faults>>

WorkerRaise(c) ==
    /\ future[c] = "running"
    /\ call[c].pc = "raised"
    /\ future' = [future EXCEPT ![c] = "failed"]
    /\ UNCHANGED <<config, english, now, utime, exc, ret, pc, rows_per_day_map, seq, consumed, call, samples,
                   cache, handles, write_day, out, metrics, faults>>

\* A loop that counts one cache operation per finished column task.
FutureResultCountsOne(c) ==
    /\ pc = "as_completed"
    /\ c \notin consumed
    /\ future[c] = "done"
    /\ consumed' = consumed \cup {c}
    /\ metrics' = [metrics EXCEPT !.cache_operations = @ + 1]
    /\ UNCHANGED <<config, english, now, utime, exc, ret, pc, rows_per_day_map, seq, future, call, samples, cache,
                   handles, write_day, out, faults>>

\* as_completed yields a future whose result() returns.
FutureResult(c) ==
    /\ pc = "as_completed"
    /\ c \notin consumed
    /\ future[c] = "done"
    /\ consumed' = consumed \cup {c}
    /\ metrics' = [metrics EXCEPT !.cache_operations = @ + config.num_days]
    /\ UNCHANGED <<config, english, now, utime, exc, ret, pc, rows_per_day_map, seq, future, call, samples, cache,
                   handles, write_day, out, faults>>

\* A handler that logs and counts the failure and goes on with the loop.
FutureExceptionSwallowed == "as_completed"

\* What the loop does with a future whose result() raises: the handler
\* re-raises, which leaves the loop for the exit of the with block.
AfterFutureException == "shutdown"

\* as_completed yields a future whose result() raises.
FutureException(c) ==
    /\ pc = "as_completed"
    /\ c \notin consumed
    /\ future[c] = "failed"
    /\ consumed' = consumed \cup {c}
    /\ metrics' = [metrics EXCEPT !.errors_encountered = @ + 1]
    /\ pc' = AfterFutureException
    /\ UNCHANGED <<config, english, now, utime, exc, ret, rows_per_day_map, seq, future, call, samples, cache,
                   handles, write_day, out, faults>>

\* Every future was yielded; the with block ends (all tasks have finished).
ExecutorExit ==
    /\ pc = "as_completed"
    /\ consumed = Cols
    /\ \A c \in Cols : Finished(c)
    /\ BeginWriteOutput
    /\ UNCHANGED <<config, english, now, utime, ret, rows_per_day_map, seq, future, consumed, call, samples,
                   cache, handles, out, faults>>

\* The with block is left by the exception: shutdown(wait=True) returns once
\* every submitted task has finished, then generate()'s handler runs.
ShutdownWait ==
    /\ pc = "shutdown"
    /\ \A c \in Cols : Finished(c)
    /\ metrics' = [metrics EXCEPT !.errors_encountered = @ + 1]
    /\ pc' = "raised"
    /\ exc' = "DataGenerationError"
    /\ UNCHANGED <<config, english, now, utime, ret, rows_per_day_map, seq, future, consumed, call, samples,
                   cache, handles, write_day, out, faults>>

(***************************************************************************)
(* output_writers.py and DataGenerator._write_output_data.                 *)
(***************************************************************************)
\* The field names of a day, lines 202-205.
FieldNames(day_index) ==
    [c \in Cols |-> get_field_name(Column(c), day_index, config.num_days)]

\* none_value of _get_data_row: "" for CSV, None for JSON and JSON lines.
NoneValue(format) == IF format = "csv" THEN EmptyStr ELSE None

\* CSV appends str(result[0]); JSON and JSON lines keep the stored value.
Fetched(format, x) == IF format = "csv" THEN Str(x) ELSE x

\* cache_handles.get(field_name): the cache the row is read from, if any.
HandleFor(field_name, conns) ==
    IF field_name \in conns.names THEN <<field_name, conns.day_index>> ELSE <<>>

\* A read that numbers the rows from 0.
GetDataRowZeroBased(format, field_names, row_index, conns) ==
    [i \in 1..Len(field_names) |->
        LET key == HandleFor(field_names[i], conns)
        IN  IF key = <<>>
            THEN NoneValue(format)
            ELSE IF row_index + 1 \in 1..Len(cache[key].rows)
                 THEN Fetched(format, cache[key].rows[row_index + 1])
                 ELSE NoneValue(format)]

\* _get_data_row(field_names, row_index, cache_handles, none_value)
GetDataRow(format, field_names, row_index, conns) ==
    [i \in 1..Len(field_names) |->
        LET key == HandleFor(field_names[i], conns)
        IN  IF key = <<>>
            THEN NoneValue(format)
            ELSE IF row_index \in 1..Len(cache[key].rows)
                 THEN Fetched(format, cache[key].rows[row_index])
                 ELSE NoneValue(format)]

\* if row and row != [None]
KeepRow(row) == row # <<>> /\ row # <<None>>

\* dict(zip(field_names, row)), as the sequence of its (field, value) items
Record(field_names, row) == [i \in 1..Len(row) |-> <<field_names[i], row[i]>>]

\* write_day: the file written for a day.  CSV: the header, then the kept rows;
\* JSON and JSON lines: one record per kept row.
WriteDayFile(format, field_names, conns, rows_per_day) ==
    LET all == [row_index \in 1..rows_per_day |->
                   GetDataRow(format, field_names, row_index, conns)]
        kept == SelectSeq(all, KeepRow)
    IN  IF format = "csv"
        THEN [format |-> format, header |-> field_names, rows |-> kept]
        ELSE [format |-> format, header |-> <<>>,
              rows |-> [p \in 1..Len(kept) |-> Record(field_names, kept[p])]]

\* An opening that connects to the caches that exist and goes on without the
\* others.
OpenCacheConnectionsSkipsMissing ==
    /\ pc = "write"
    /\ write_day < config.num_days
    /\ handles = NoHandles
    /\ handles' = [day_index |-> write_day,
                   names |-> {Column(c).name : c \in {b \in Cols :
                                 cache[CacheKey(Column(b), write_day)].exists}}]
    /\ UNCHANGED <<config, english, now, utime, exc, ret, pc, rows_per_day_map, seq, future, consumed, call,
                   samples, cache, write_day, out, metrics, faults>>

\* _open_cache_connections: one connection per column, under its configured
\* name; CacheError if a cache file is missing, which _write_output_data
\* turns into OutputError and generate() into DataGenerationError.
OpenCacheConnections ==
    /\ pc = "write"
    /\ write_day < config.num_days
    /\ handles = NoHandles
    /\ IF \A c \in Cols : cache[CacheKey(Column(c), write_day)].exists
       THEN /\ handles' = [day_index |-> write_day,
                           names |-> {Column(c).name : c \in Cols}]
            /\ UNCHANGED <<pc, metrics, exc>>
       ELSE /\ metrics' = [metrics EXCEPT !.errors_encountered = @ + 2]
            /\ pc' = "raised"
            /\ exc' = "DataGenerationError"
            /\ UNCHANGED handles
    /\ UNCHANGED <<config, english, now, utime, ret, rows_per_day_map, seq, future, consumed, call, samples,
                   cache, write_day, out, faults>>

\* A stamp that goes forward from the first day.
SetFileTimestampForward(time_now, day_index, total_days) ==
    time_now + day_index * SecondsPerDay

\* set_file_timestamp: day_time, which os.utime sets as access and
\* modification time.
set_file_timestamp(time_now, day_index, total_days) ==
    time_now - ((total_days - day_index - 1) * SecondsPerDay)

\* writer.write_day, set_file_timestamp, the two counters, and the close of
\* the connections at the end of the with block.
WriteDay ==
    /\ pc = "write"
    /\ handles # NoHandles
    /\ LET rows_for_day == rows_per_day_map[write_day]
           file == WriteDayFile(config.output_format, FieldNames(write_day),
                                handles, rows_for_day)
       IN  /\ out' = [d \in DOMAIN out \cup {write_day} |->
                         IF d = write_day THEN file ELSE out[d]]
           /\ metrics' = [metrics EXCEPT !.files_written = @ + 1,
                                         !.total_rows_generated = @ + rows_for_day]
    /\ utime' = [d \in DOMAIN utime \cup {write_day} |->
                    IF d = write_day
                    THEN set_file_timestamp(now, write_day, config.num_days)
                    ELSE utime[d]]
    /\ handles' = NoHandles
    /\ write_day' = write_day + 1
    /\ UNCHANGED <<config, english, now, exc, ret, pc, rows_per_day_map, seq, future, consumed, call,
                   samples, cache, faults>>

\* _write_generation_profile
WriteGenerationProfile ==
    /\ pc = "write"
    /\ write_day = config.num_days
    /\ pc' = "cleanup"
    /\ UNCHANGED <<config, english, now, utime, exc, ret, rows_per_day_map, seq, future, consumed, call, samples,
                   cache, handles, write_day, out, metrics, faults>>

(***************************************************************************)
(* cleanup_all_cache: glob.glob(f".{name}-*.cache") and os.unlink of what   *)
(* it returns.  A file name and a pattern are sequences of characters.     *)
(***************************************************************************)
\* The characters of the column names of the runs checked.
CharsOf ==
    ("id" :> <<"i", "d">>) @@ ("value" :> <<"v", "a", "l", "u", "e">>) @@
    ("extra" :> <<"e", "x", "t", "r", "a">>) @@
    ("v[1]" :> <<"v", "[", "1", "]">>) @@ ("v1" :> <<"v", "1">>)

Digit == <<"0", "1", "2", "3", "4", "5", "6", "7", "8", "9">>

RECURSIVE Decimal(_)
\* str(n) of a day index
Decimal(n) ==
    IF n < 10 THEN <<Digit[n + 1]>> ELSE Decimal(n \div 10) \o <<Digit[(n % 10) + 1]>>

CacheSuffix == <<".", "c", "a", "c", "h", "e">>

\* The name of the file _get_cache_path gives for a cache key.
CachePathChars(key) ==
    <<".">> \o CharsOf[key[1]] \o <<"-">> \o Decimal(key[2]) \o CacheSuffix

\* cache_pattern of cleanup_all_cache
CachePattern(name) == <<".">> \o CharsOf[name] \o <<"-", "*">> \o CacheSuffix

\* Where the bracket expression that opens before rest ends in rest: the
\* index of its "]", 0 if it has none (the "[" is then an ordinary character).
ClassEnd(rest) ==
    LET k0 == IF rest # <<>> /\ rest[1] = "!" THEN 2 ELSE 1
        k1 == IF k0 <= Len(rest) /\ rest[k0] = "]" THEN k0 + 1 ELSE k0
        closers == {j \in k1..Len(rest) : rest[j] = "]"}
    IN  IF closers = {} THEN 0
        ELSE CHOOSE j \in closers : \A i \in closers : j <= i

\* A character is in the bracket expression with the content stuff (the
\* names checked have no character range in a bracket expression).
InClass(ch, stuff) ==
    IF stuff[1] = "!"
    THEN \A i \in 2..Len(stuff) : stuff[i] # ch
    ELSE \E i \in 1..Len(stuff) : stuff[i] = ch

RECURSIVE FnMatch(_, _)
\* fnmatch of a file name against a pattern: "*" is any text, "?" any
\* character, "[...]" one character of the set.
FnMatch(pattern, text) ==
    IF pattern = <<>> THEN text = <<>>
    ELSE IF Head(pattern) = "*"
    THEN FnMatch(Tail(pattern), text) \/ (text # <<>> /\ FnMatch(pattern, Tail(text)))
    ELSE IF Head(pattern) = "?"
    THEN text # <<>> /\ FnMatch(Tail(pattern), Tail(text))
    ELSE IF Head(pattern) = "[" /\ ClassEnd(Tail(pattern)) > 0
    THEN LET rest == Tail(pattern)
             j == ClassEnd(rest)
         IN  /\ text # <<>>
             /\ InClass(Head(text), SubSeq(rest, 1, j - 1))
             /\ FnMatch(SubSeq(rest, j + 1, Len(rest)), Tail(text))
    ELSE text # <<>> /\ Head(text) = Head(pattern) /\ FnMatch(Tail(pattern), Tail(text))

\* The cache files cleanup_all_cache of a column unlinks.
GlobMatches(name, key) == FnMatch(CachePattern(name), CachePathChars(key))

\* _cleanup_cache_files, then generate() returns the metrics.
CleanupCacheFiles ==
    /\ pc = "cleanup"
    /\ cache' = IF config.cleanup_cache
                THEN [key \in DOMAIN cache |->
                        IF \E c \in Cols : GlobMatches(Column(c).name, key)
                        THEN NoCache ELSE cache[key]]
                ELSE cache
    /\ pc' = "done"
    /\ UNCHANGED <<config, english, now, utime, exc, ret, rows_per_day_map, seq, future, consumed, call, samples,
                   handles, write_day, out, metrics, faults>>

(***************************************************************************)
(* The runs checked.                                                       *)
(***************************************************************************)
ColumnNames == <<"id", "value", "extra">>

\* The column kinds of a whole run: the default id column, a column whose
\* name changes at half of the days, a column stringified from the first day.
RunColumnKinds ==
    {[data_type |-> "INTEGER", transition_percentage |-> 0,
      transition_type |-> {}, distribution_flags |-> {"INCREMENT"}],
     [data_type |-> "FLOAT", transition_percentage |-> 50,
      transition_type |-> {"SCHEMA_NAME"}, distribution_flags |-> {"INCREMENT"}],
     [data_type |-> "FLOAT", transition_percentage |-> 0,
      transition_type |-> {"VALUES_ALL_STRINGS"},
      distribution_flags |-> {"INCREMENT"}]}

ColumnConfig(name, kind) ==
    [name |-> name, data_type |-> kind.data_type,
     transition_percentage |-> kind.transition_percentage,
     transition_type |-> kind.transition_type,
     distribution_flags |-> kind.distribution_flags]

ColumnLists(kinds) ==
    UNION {{[c \in 1..k |-> ColumnConfig(ColumnNames[c], choice[c])] :
               choice \in [1..k -> kinds]} : k \in 0..MaxCols}

CacheKeys(cfg) ==
    {<<cfg.columns[c].name, d>> : c \in 1..Len(cfg.columns), d \in 0..(cfg.num_days - 1)}

InitRun(cfg) ==
    /\ config = cfg
    /\ rows_per_day_map = <<>>
    /\ seq = [col |-> 0, day_index |-> 0]
    /\ future = [c \in 1..Len(cfg.columns) |-> "none"]
    /\ consumed = {}
    /\ call = [c \in 1..Len(cfg.columns) |-> NoCall]
    /\ samples = [c \in 1..Len(cfg.columns) |-> <<>>]
    /\ cache = [key \in CacheKeys(cfg) |-> NoCache]
    /\ handles = NoHandles
    /\ write_day = 0
    /\ out = <<>>
    /\ metrics = [total_rows_generated |-> 0, total_columns |-> Len(cfg.columns),
                  cache_operations |-> 0, files_written |-> 0,
                  errors_encountered |-> 0]
    /\ faults = 0
    /\ exc = "none"
    /\ ret = NoRet
    /\ now = 0
    /\ utime = <<>>
    /\ english = NoDict

\* DataGenerator(config), before generate().
Init ==
    /\ pc = "start"
    /\ \E columns \in ColumnLists(RunColumnKinds), num_days \in 1..MaxDays,
          cache_batch_size \in 1..MaxBatch, max_workers \in 0..MaxWorkers,
          output_format \in {"csv", "json", "jsonl"}, cleanup_cache \in BOOLEAN :
          InitRun([num_days |-> num_days, cache_batch_size |-> cache_batch_size,
                   max_workers |-> max_workers, output_format |-> output_format,
                   cleanup_cache |-> cleanup_cache, columns |-> columns])

Next ==
    \/ GenerateRowsPerDayMap
    \/ StartSequential
    \/ SeqCall
    \/ SeqReturn
    \/ SeqRaise
    \/ SeqDone
    \/ SubmitTasks
    \/ \E c \in Cols : TaskStart(c)
    \/ \E c \in Cols : WorkerReturn(c)
    \/ \E c \in Cols : WorkerRaise(c)
    \/ \E c \in Cols : FutureResult(c)
    \/ \E c \in Cols : FutureException(c)
    \/ ExecutorExit
    \/ ShutdownWait
    \/ \E c \in Cols : ColumnStep(c)
    \/ OpenCacheConnections
    \/ WriteDay
    \/ WriteGenerationProfile
    \/ CleanupCacheFiles

Spec == Init /\ [][Next]_vars

(***************************************************************************)
(* One direct call column.generate_day_data(day_index, num_values,         *)
(* total_days, batch_size) on a column of any type, fraction and flags, as *)
(* test_generator.py makes it; a cache file of an earlier run may exist.   *)
(***************************************************************************)
FlagSets == {f \in SUBSET TransitionType : Cardinality(f) <= MaxFlags}

ColumnKinds ==
    [data_type : DataType, transition_percentage : {0, 50, 100},
     transition_type : FlagSets, distribution_flags : SUBSET DistributionType]

StaleCache == [exists |-> TRUE, open |-> FALSE, rows |-> <<EmptyStr>>, pending |-> <<>>]

InitColumn ==
    /\ pc = "direct"
    /\ \E kind \in ColumnKinds, total_days \in 1..MaxDays,
          batch_size \in 1..MaxBatch :
          LET cfg == [num_days |-> total_days, cache_batch_size |-> batch_size,
                      max_workers |-> 1, output_format |-> "csv",
                      cleanup_cache |-> FALSE,
                      columns |-> <<ColumnConfig(ColumnNames[1], kind)>>]
          IN  /\ config = cfg
              /\ \E day_index \in 0..(total_days - 1), num_values \in 1..MaxValues,
                    old \in {NoCache, StaleCache} :
                    /\ call = <<EnterCall(day_index, num_values)>>
                    /\ cache = [key \in CacheKeys(cfg) |->
                                  IF key[2] = day_index THEN old ELSE NoCache]
              /\ samples = <<(<<>>)>>
    /\ rows_per_day_map = <<>>
    /\ seq = [col |-> 0, day_index |-> 0]
    /\ future = <<"none">>
    /\ consumed = {}
    /\ handles = NoHandles
    /\ write_day = 0
    /\ out = <<>>
    /\ metrics = [total_rows_generated |-> 0, total_columns |-> 1,
                  cache_operations |-> 0, files_written |-> 0,
                  errors_encountered |-> 0]
    /\ faults = 0
    /\ exc = "none"
    /\ ret = NoRet
    /\ now = 0
    /\ utime = <<>>
    /\ english = NoDict

NextColumn == \E c \in Cols : ColumnStep(c)

SpecColumn == InitColumn /\ [][NextColumn]_vars

(***************************************************************************)
(* The caller builds the configuration, from any argument values, before   *)
(* it makes the generator: the two __post_init__ validations, then the     *)
(* attribute assignments the dataclass allows (as load_config_from_args    *)
(* makes them), then DataGenerator(config) and generate().  The caller may *)
(* also ask the factory for a writer directly.                             *)
(***************************************************************************)
\* ColumnConfig.__post_init__: what it accepts.
ColumnConfigAccepts(col) == 0 <= col.transition_percentage /\ col.transition_percentage <= 100

\* GeneratorConfig.__post_init__: what it accepts.
GeneratorConfigAccepts(cfg) ==
    /\ ~(cfg.num_days <= 0)
    /\ ~(cfg.approx_rows_per_day <= 0)
    /\ cfg.output_format \in {"csv", "json", "jsonl"}
    /\ 0 <= cfg.row_variation_percentage /\ cfg.row_variation_percentage <= 100

PostInit ==
    /\ pc = "construct"
    /\ IF /\ \A c \in Cols : ColumnConfigAccepts(Column(c))
          /\ GeneratorConfigAccepts(config)
       THEN pc' = "configured" /\ UNCHANGED exc
       ELSE pc' = "raised" /\ exc' = "ValueError"
    /\ UNCHANGED <<config, english, now, utime, ret, rows_per_day_map, seq, future, consumed, call, samples,
                   cache, handles, write_day, out, metrics, faults>>

\* config.output_format = <format>: no validation runs on an assignment.
AssignOutputFormat(format) ==
    /\ pc = "configured"
    /\ config.output_format # format
    /\ config' = [config EXCEPT !.output_format = format]
    /\ UNCHANGED <<english, now, utime, exc, ret, pc, rows_per_day_map, seq, future, consumed, call,
                   samples, cache, handles, write_day, out, metrics, faults>>

\* DataGenerator(config)
NewDataGenerator ==
    /\ pc = "configured"
    /\ pc' = "start"
    /\ UNCHANGED <<config, english, now, utime, exc, ret, rows_per_day_map, seq, future, consumed, call,
                   samples, cache, handles, write_day, out, metrics, faults>>

\* A direct call: what it returned, or the exception it raised.
Returned(op, c, day_index, total_days, arg, value) ==
    [q \in DOMAIN ret \cup {<<op, c, day_index, total_days, arg>>} |->
        IF q = <<op, c, day_index, total_days, arg>> THEN value ELSE ret[q]]

\* OutputWriterFactory.create_writer(format_name), called directly.
CreateWriterCall(format_name) ==
    /\ pc = "configured"
    /\ ret' = Returned("create_writer", 0, 0, 0, {format_name},
                       create_writer(format_name))
    /\ UNCHANGED <<config, english, now, utime, exc, pc, rows_per_day_map, seq, future, consumed, call,
                   samples, cache, handles, write_day, out, metrics, faults>>

RequestedFormats == {"csv", "xml"}

InitConfig ==
    /\ pc = "construct"
    /\ \E transition_percentage \in {50, 150}, num_days \in 0..MaxDays,
          approx_rows_per_day \in {0, MaxRows}, output_format \in RequestedFormats,
          row_variation_percentage \in {20, 150},
          cache_batch_size \in 0..MaxBatch, max_workers \in 1..MaxWorkers :
          InitRun([num_days |-> num_days, approx_rows_per_day |-> approx_rows_per_day,
                   output_format |-> output_format,
                   cache_batch_size |-> cache_batch_size, max_workers |-> max_workers,
                   row_variation_percentage |-> row_variation_percentage,
                   cleanup_cache |-> TRUE,
                   columns |-> <<[name |-> ColumnNames[1], data_type |-> "FLOAT",
                                  transition_percentage |-> transition_percentage,
                                  transition_type |-> {"VALUES_SCALE"},
                                  distribution_flags |-> {"UNIFORM"}]>>])

NextConfig ==
    \/ PostInit
    \/ \E format \in RequestedFormats : AssignOutputFormat(format)
    \/ \E format_name \in RequestedFormats : CreateWriterCall(format_name)
    \/ NewDataGenerator
    \/ Next

SpecConfig == InitConfig /\ [][NextConfig]_vars

(***************************************************************************)
(* Direct calls of ColumnSpace.has_transition and get_field_name: for every *)
(* day of total_days and every column (the loops of _write_output_data),   *)
(* the caller asks has_transition for each flag of QueryFlags and then     *)
(* get_field_name.  seq holds the caller's loop variables.  The fractions  *)
(* asked about are exact in binary floating point, where                   *)
(* int(total_days * fraction) is the floor of the exact product.           *)
(***************************************************************************)
QueryFlags == <<"SCHEMA_NAME", "VALUES_SCALE", "NULLS_HIGH">>

QueryKinds ==
    [data_type : {"FLOAT"}, transition_percentage : {0, 50, 100},
     transition_type : SUBSET {QueryFlags[i] : i \in 1..Len(QueryFlags)},
     distribution_flags : {{"INCREMENT"}}]

InitQuery ==
    /\ pc = "query"
    /\ \E kind \in QueryKinds, other \in RunColumnKinds, total_days \in 1..MaxQueryDays :
          InitRun([num_days |-> total_days, cache_batch_size |-> 1, max_workers |-> 1,
                   output_format |-> "csv", cleanup_cache |-> FALSE,
                   columns |-> <<ColumnConfig(ColumnNames[1], kind),
                                 ColumnConfig(ColumnNames[2], other)>>])

StartQueries ==
    /\ pc = "query"
    /\ seq.col = 0
    /\ seq' = [col |-> 1, day_index |-> 0, op |-> 1]
    /\ UNCHANGED <<config, english, now, utime, exc, ret, pc, rows_per_day_map, future, consumed, call,
                   samples, cache, handles, write_day, out, metrics, faults>>

\* The loop variables after one more call.
NextQuery ==
    IF seq.op <= Len(QueryFlags) THEN [seq EXCEPT !.op = @ + 1]
    ELSE IF seq.col < NumCols THEN [seq EXCEPT !.op = 1, !.col = @ + 1]
    ELSE [col |-> 1, day_index |-> seq.day_index + 1, op |-> 1]

\* column.has_transition(day_index, total_days, flag)
HasTransitionCall ==
    /\ pc = "query"
    /\ seq.col \in Cols
    /\ seq.day_index < config.num_days
    /\ seq.op <= Len(QueryFlags)
    /\ ret' = Returned("has_transition", seq.col, seq.day_index, config.num_days,
                       {QueryFlags[seq.op]},
                       has_transition(Column(seq.col), seq.day_index, config.num_days,
                                      {QueryFlags[seq.op]}))
    /\ seq' = NextQuery
    /\ UNCHANGED <<config, english, now, utime, exc, pc, rows_per_day_map, future, consumed, call,
                   samples, cache, handles, write_day, out, metrics, faults>>

\* column.get_field_name(day_index, total_days)
GetFieldNameCall ==
    /\ pc = "query"
    /\ seq.col \in Cols
    /\ seq.day_index < config.num_days
    /\ seq.op = Len(QueryFlags) + 1
    /\ ret' = Returned("get_field_name", seq.col, seq.day_index, config.num_days, {},
                       get_field_name(Column(seq.col), seq.day_index, config.num_days))
    /\ seq' = NextQuery
    /\ UNCHANGED <<config, english, now, utime, exc, pc, rows_per_day_map, future, consumed, call,
                   samples, cache, handles, write_day, out, metrics, faults>>

NextQueries == StartQueries \/ HasTransitionCall \/ GetFieldNameCall

SpecQuery == InitQuery /\ [][NextQueries]_vars

(***************************************************************************)
(* A run in an environment that can fail once while the output is written  *)
(* (a cache file removed from the working directory, a failing open or     *)
(* utime of an output file), called from main() of gen_data_new.py.        *)
(***************************************************************************)
\* The environment removes a cache file between the consolidation of two days.
CacheFileRemoved(key) ==
    /\ pc = "write"
    /\ handles = NoHandles
    /\ faults < MaxFaults
    /\ cache[key].exists
    /\ cache' = [cache EXCEPT ![key] = NoCache]
    /\ faults' = faults + 1
    /\ UNCHANGED <<config, english, now, utime, exc, ret, pc, rows_per_day_map, seq, future, consumed, call,
                   samples, handles, write_day, out, metrics>>

\* writer.write_day or set_file_timestamp raises: at open(output_path) no
\* file is made, at os.utime the file is written.  The connections are closed
\* by the finally of _open_cache_connections, the handler of the loop counts
\* the error and raises OutputError, generate()'s handler counts it again.
WriteDayFails(stage) ==
    /\ pc = "write"
    /\ handles # NoHandles
    /\ faults < MaxFaults
    /\ out' = IF stage = "utime"
              THEN [d \in DOMAIN out \cup {write_day} |->
                       IF d = write_day
                       THEN WriteDayFile(config.output_format, FieldNames(write_day),
                                         handles, rows_per_day_map[write_day])
                       ELSE out[d]]
              ELSE out
    /\ handles' = NoHandles
    /\ metrics' = [metrics EXCEPT !.errors_encountered = @ + 2]
    /\ pc' = "raised"
    /\ exc' = "DataGenerationError"
    /\ faults' = faults + 1
    /\ UNCHANGED <<config, english, now, utime, ret, rows_per_day_map, seq, future, consumed, call, samples,
                   cache, write_day>>

\* An exit status that reports every finished run as a success.
ExitStatusOfFinishedRun ==
    IF pc \in {"done", "raised"} THEN 0 ELSE 1

\* main(): the exit status after generator.generate().
ExitStatus ==
    IF pc = "done" /\ metrics.errors_encountered = 0 THEN 0 ELSE 1

MainReturn ==
    /\ pc \in {"done", "raised"}
    /\ ret = NoRet
    /\ ret' = Returned("main", 0, 0, config.num_days, {}, ExitStatus)
    /\ UNCHANGED <<config, english, now, utime, exc, pc, rows_per_day_map, seq, future, consumed, call,
                   samples, cache, handles, write_day, out, metrics, faults>>

NextFaults ==
    \/ Next
    \/ \E key \in DOMAIN cache : CacheFileRemoved(key)
    \/ \E stage \in {"open", "utime"} : WriteDayFails(stage)
    \/ MainReturn

SpecFaults == Init /\ [][NextFaults]_vars

(***************************************************************************)
(* GenWords.py: one call of AmericanEnglishDict._get_random_word on a      *)
(* dictionary file of any content.  A byte of the file is a letter, a line *)
(* feed, or a byte the text decoder cannot decode.  The file object        *)
(* decodes the file chunk by chunk, as far as a read needs (8192 bytes at  *)
(* a time in CPython; english.chunk here).                                 *)
(***************************************************************************)
Bytes == {"a", "LF", "undecodable"}

Files == UNION {[1..len -> Bytes] : len \in 0..MaxFileLen}

InitWords ==
    /\ pc = "direct"
    /\ InitRun([num_days |-> 1, cache_batch_size |-> 1, max_workers |-> 1,
                output_format |-> "csv", cleanup_cache |-> FALSE, columns |-> <<>>])

\* AmericanEnglishDict(): the file is opened for reading as text.
OpenDictionary ==
    /\ english.pc = "idle"
    /\ pc = "direct"
    /\ \E data \in Files, chunk \in 1..MaxChunk :
          english' = [NoDict EXCEPT !.pc = "call", !.data = data, !.chunk = chunk]
    /\ UNCHANGED <<config, now, utime, exc, ret, pc, rows_per_day_map, seq, future, consumed,
                   call, samples, cache, handles, write_day, out, metrics, faults>>

\* pos = random.random() * self.fh_len; self.fh.seek(pos, 0); i = 0
SeekRandom ==
    /\ english.pc = "call"
    /\ \E pos \in 0..Max(0, Len(english.data) - 1) :
          english' = [english EXCEPT !.pc = "read", !.start = pos, !.pos = pos,
                                     !.decoded = pos, !.i = 0]
    /\ UNCHANGED <<config, now, utime, exc, ret, pc, rows_per_day_map, seq, future, consumed,
                   call, samples, cache, handles, write_day, out, metrics, faults>>

\* The file has an undecodable byte among the bytes from + 1 .. to.
Undecodable(data, from, to) == \E j \in (from + 1)..to : data[j] = "undecodable"

\* One pass of the while loop: c = self.fh.read(1) and what follows it.
ReadOne ==
    /\ english.pc = "read"
    /\ LET data == english.data
           len == Len(data)
           more == english.pos >= english.decoded /\ english.decoded < len
           upto == IF more THEN Min(english.decoded + english.chunk, len)
                   ELSE english.decoded
           c == IF english.pos < len THEN data[english.pos + 1] ELSE ""
           pos == IF english.pos < len THEN english.pos + 1 ELSE english.pos
       IN  IF Undecodable(data, english.decoded, upto)
           THEN english' = [english EXCEPT !.pc = "over", !.outcome = "UnicodeIsFun"]
           ELSE IF c = "LF"
           THEN english' = [english EXCEPT !.pc = "readline", !.pos = pos,
                                           !.decoded = upto]
           ELSE IF english.i + 1 > GiveUpAfter
           THEN english' = [english EXCEPT !.pc = "over", !.outcome = "os._exit(2)",
                                           !.pos = pos, !.decoded = upto,
                                           !.i = english.i + 1]
           ELSE english' = [english EXCEPT !.pos = pos, !.decoded = upto,
                                           !.i = english.i + 1]
    /\ UNCHANGED <<config, now, utime, exc, ret, pc, rows_per_day_map, seq, future, consumed,
                   call, samples, cache, handles, write_day, out, metrics, faults>>

\* The end of the line that starts after `pos`: the index of its line feed,
\* or the length of the file.
LineEnd(data, pos) ==
    LET feeds == {j \in (pos + 1)..Len(data) : data[j] = "LF"}
    IN  IF feeds = {} THEN Len(data)
        ELSE CHOOSE j \in feeds : \A k \in feeds : j <= k

\* How far the file is decoded once whole chunks cover the bytes up to `to`.
DecodedUpTo(decoded, chunk, to, len) ==
    IF to <= decoded THEN decoded
    ELSE Min(decoded + chunk * (((to - decoded) + chunk - 1) \div chunk), len)

\* s = self.fh.readline(); return s.strip() -- outside the try of the loop.
ReadLine ==
    /\ english.pc = "readline"
    /\ LET data == english.data
           end == LineEnd(data, english.pos)
           upto == DecodedUpTo(english.decoded, english.chunk, end, Len(data))
           text == SubSeq(data, english.pos + 1, end)
       IN  IF Undecodable(data, english.decoded, upto)
           THEN english' = [english EXCEPT !.pc = "over",
                                           !.outcome = "UnicodeDecodeError"]
           ELSE english' = [english EXCEPT !.pc = "over", !.outcome = "returned",
                                           !.line = SelectSeq(text, LAMBDA b : b # "LF"),
                                           !.pos = end, !.decoded = upto]
    /\ UNCHANGED <<config, now, utime, exc, ret, pc, rows_per_day_map, seq, future, consumed,
                   call, samples, cache, handles, write_day, out, metrics, faults>>

NextWords == OpenDictionary \/ SeekRandom \/ ReadOne \/ ReadLine

SpecWords == InitWords /\ [][NextWords]_vars

(***************************************************************************)
(* A run during which time passes: the clock goes forward by half a day or *)
(* a day at any moment of the run.                                         *)
(***************************************************************************)
Tick(seconds) ==
    /\ now + seconds <= MaxClockDays * SecondsPerDay
    /\ now' = now + seconds
    /\ UNCHANGED <<config, english, utime, exc, ret, pc, rows_per_day_map, seq, future, consumed,
                   call, samples, cache, handles, write_day, out, metrics, faults>>

InitClock ==
    /\ pc = "start"
    /\ \E columns \in ColumnLists({[data_type |-> "INTEGER", transition_percentage |-> 0,
                                     transition_type |-> {},
                                     distribution_flags |-> {"INCREMENT"}]}),
          num_days \in 1..MaxDays, max_workers \in 0..MaxWorkers :
          InitRun([num_days |-> num_days, cache_batch_size |-> MaxBatch,
                   max_workers |-> max_workers, output_format |-> "csv",
                   cleanup_cache |-> FALSE, columns |-> columns])

NextClock ==
    \/ Next
    \/ \E seconds \in {SecondsPerDay \div 2, SecondsPerDay} : Tick(seconds)

SpecClock == InitClock /\ [][NextClock]_vars

(***************************************************************************)
(* A run whose column names have characters that glob reads as a pattern.  *)
(***************************************************************************)
PatternNames == <<"v[1]", "v1">>

InitNames ==
    /\ pc = "start"
    /\ \E k \in 1..MaxCols, num_days \in 1..MaxDays,
          cache_batch_size \in 1..MaxBatch, max_workers \in 0..MaxWorkers,
          output_format \in {"csv", "json", "jsonl"}, cleanup_cache \in BOOLEAN :
          InitRun([num_days |-> num_days, cache_batch_size |-> cache_batch_size,
                   max_workers |-> max_workers, output_format |-> output_format,
                   cleanup_cache |-> cleanup_cache,
                   columns |-> [c \in 1..k |->
                                  ColumnConfig(PatternNames[c],
                                               [data_type |-> "INTEGER",
                                                transition_percentage |-> 0,
                                                transition_type |-> {},
                                                distribution_flags |-> {"INCREMENT"}])]])

SpecNames == InitNames /\ [][Next]_vars

(***************************************************************************)
(* A run followed by generator.validate_generated_data(), as               *)
(* test_data_validation and main() with --validate make it.                *)
(***************************************************************************)
\* os.path.getsize(file_path) == 0: a CSV file has its header line, a JSON
\* file the brackets of its list, a JSON lines file one line per record.
EmptyFile(file) == file.format = "jsonl" /\ file.rows = <<>>

RECURSIVE FileIssues(_)
\* The issues of the expected files of the days below n, lines 300-307.
FileIssues(n) ==
    IF n <= 0 THEN <<>>
    ELSE FileIssues(n - 1) \o
         (IF (n - 1) \notin DOMAIN out THEN <<[issue |-> "Missing expected file", day |-> n - 1]>>
          ELSE IF EmptyFile(out[n - 1]) THEN <<[issue |-> "Empty file", day |-> n - 1]>>
          ELSE <<>>)

\* The list validate_generated_data returns; the output directory exists
\* once generate() has passed _create_output_directory.
Issues ==
    FileIssues(config.num_days) \o
    (IF metrics.total_rows_generated = 0
     THEN <<[issue |-> "No rows were generated", day |-> -1]>> ELSE <<>>) \o
    (IF metrics.files_written # config.num_days
     THEN <<[issue |-> "Expected files", day |-> -1]>> ELSE <<>>)

ValidateGeneratedData ==
    /\ pc = "done"
    /\ ret = NoRet
    /\ ret' = Returned("validate_generated_data", 0, 0, config.num_days, {}, Issues)
    /\ UNCHANGED <<config, english, now, utime, exc, pc, rows_per_day_map, seq, future, consumed, call,
                   samples, cache, handles, write_day, out, metrics, faults>>

NextValidate == Next \/ ValidateGeneratedData

SpecValidate == Init /\ [][NextValidate]_vars

(***************************************************************************)
(* A caller that works on the caches of one column directly: up to         *)
(* MaxCalls calls of generate_day_data, each for any day and count, then   *)
(* reads of single rows of a closed cache with a writer's _get_data_row,   *)
(* the connection being held under the column's configured name.           *)
(***************************************************************************)
\* Column kinds without a random transition.
CacheKinds ==
    RunColumnKinds \cup
    {[data_type |-> "FLOAT", transition_percentage |-> 0,
      transition_type |-> {}, distribution_flags |-> {"UNIFORM"}],
     [data_type |-> "INTEGER", transition_percentage |-> 50,
      transition_type |-> {"VALUES_SCALE"}, distribution_flags |-> {"UNIFORM"}]}

InitCache ==
    /\ pc = "direct"
    /\ \E kind \in CacheKinds, total_days \in 1..MaxDays, batch_size \in 1..MaxBatch,
          output_format \in {"csv", "json"} :
          InitRun([num_days |-> total_days, cache_batch_size |-> batch_size,
                   max_workers |-> 1, output_format |-> output_format,
                   cleanup_cache |-> FALSE,
                   columns |-> <<ColumnConfig(ColumnNames[1], kind)>>])

\* The counts of the generate_day_data calls that have returned, by key.
GeneratedCounts(c, day_index) ==
    LET q == <<"generate_day_data", c, day_index, config.num_days, {}>>
    IN  IF q \in DOMAIN ret THEN ret[q] ELSE <<>>

\* column.generate_day_data(day_index, num_values, total_days, batch_size)
GenerateDayDataCall(c, day_index, num_values) ==
    /\ pc = "direct"
    /\ call[c].pc = "idle"
    /\ \A q \in DOMAIN ret : q[1] = "generate_day_data"
    /\ Cardinality({q \in DOMAIN ret : Len(ret[q]) = 1})
         + 2 * Cardinality({q \in DOMAIN ret : Len(ret[q]) = 2}) < MaxCalls
    /\ call' = [call EXCEPT ![c] = EnterCall(day_index, num_values)]
    /\ UNCHANGED <<config, english, now, utime, exc, ret, pc, rows_per_day_map, seq, future, consumed,
                   samples, cache, handles, write_day, out, metrics, faults>>

GenerateDayDataReturn(c) ==
    /\ pc = "direct"
    /\ call[c].pc = "returned"
    /\ ret' = Returned("generate_day_data", c, call[c].day_index, config.num_days, {},
                       Append(GeneratedCounts(c, call[c].day_index), call[c].num_values))
    /\ call' = [call EXCEPT ![c] = NoCall]
    /\ UNCHANGED <<config, english, now, utime, exc, pc, rows_per_day_map, seq, future, consumed,
                   samples, cache, handles, write_day, out, metrics, faults>>

\* writer._get_data_row([name], row_index, {name: connection}, none_value) on
\* the closed cache of a day.
GetDataRowCall(c, day_index, row_index) ==
    /\ pc = "direct"
    /\ call[c].pc = "idle"
    /\ cache[CacheKey(Column(c), day_index)].exists
    /\ ret' = Returned("_get_data_row", c, day_index, config.num_days, {},
                       [row_index |-> row_index,
                        row |-> GetDataRow(config.output_format, <<Column(c).name>>,
                                           row_index,
                                           [day_index |-> day_index,
                                            names |-> {Column(c).name}])])
    /\ UNCHANGED <<config, english, now, utime, exc, pc, rows_per_day_map, seq, future, consumed, call,
                   samples, cache, handles, write_day, out, metrics, faults>>

NextCache ==
    \/ \E c \in Cols, day_index \in Days, num_values \in 1..MaxValues :
          GenerateDayDataCall(c, day_index, num_values)
    \/ \E c \in Cols : ColumnStep(c)
    \/ \E c \in Cols : GenerateDayDataReturn(c)
    \/ \E c \in Cols, day_index \in Days, row_index \in 0..(MaxValues + 1) :
          GetDataRowCall(c, day_index, row_index)

SpecCache == InitCache /\ [][NextCache]_vars

(***************************************************************************)
(* One call of generate_day_data with any batch size GeneratorConfig       *)
(* accepts, 0 included (cache_batch_size has no range check).  The steps   *)
(* of the call itself are taken as long as they are possible; a failure of *)
(* sqlite may happen and need not.                                         *)
(***************************************************************************)
InitBatches ==
    /\ pc = "direct"
    /\ \E kind \in CacheKinds, total_days \in 1..MaxDays, batch_size \in 0..MaxBatch,
          day_index \in 0..(MaxDays - 1), num_values \in 1..MaxValues :
          /\ day_index < total_days
          /\ config = [num_days |-> total_days, cache_batch_size |-> batch_size,
                       max_workers |-> 1, output_format |-> "csv",
                       cleanup_cache |-> FALSE,
                       columns |-> <<ColumnConfig(ColumnNames[1], kind)>>]
          /\ call = <<EnterCall(day_index, num_values)>>
          /\ cache = [key \in {<<ColumnNames[1], d>> : d \in 0..(total_days - 1)} |-> NoCache]
    /\ samples = <<(<<>>)>>
    /\ rows_per_day_map = <<>>
    /\ seq = [col |-> 0, day_index |-> 0]
    /\ future = <<"none">>
    /\ consumed = {}
    /\ handles = NoHandles
    /\ write_day = 0
    /\ out = <<>>
    /\ metrics = [total_rows_generated |-> 0, total_columns |-> 1,
                  cache_operations |-> 0, files_written |-> 0,
                  errors_encountered |-> 0]
    /\ faults = 0
    /\ exc = "none"
    /\ ret = NoRet
    /\ now = 0
    /\ utime = <<>>
    /\ english = NoDict

\* The steps generate_day_data takes by itself.
CallProgress == \E c \in Cols : CacheOpen(c) \/ GenerateBatch(c) \/ CommitClose(c)

SpecBatches == InitBatches /\ [][NextColumn]_vars /\ WF_vars(CallProgress)

(***************************************************************************)
(* A run whose two configured columns have the same name, which the        *)
(* configuration accepts: both write and read the cache files of that name.*)
(***************************************************************************)
InitShared ==
    /\ pc = "start"
    /\ \E kinds \in [1..2 -> RunColumnKinds], num_days \in 1..MaxDays,
          cache_batch_size \in 1..MaxBatch, max_workers \in 0..MaxWorkers,
          cleanup_cache \in BOOLEAN :
          InitRun([num_days |-> num_days, cache_batch_size |-> cache_batch_size,
                   max_workers |-> max_workers, output_format |-> "csv",
                   cleanup_cache |-> cleanup_cache,
                   columns |-> [c \in 1..2 |-> ColumnConfig(ColumnNames[1], kinds[c])]])

SpecShared == InitShared /\ [][Next]_vars

(***************************************************************************)
(* Properties.                                                             *)
(***************************************************************************)
\* Field i of output row p of a file, as (field name, value).
RowField(file, p, i) ==
    IF file.format = "csv" THEN <<file.header[i], file.rows[p][i]>>
    ELSE file.rows[p][i]

\* Days whose output file is written while the caches are all still there.
WrittenDays == IF pc = "write" THEN DOMAIN out ELSE {}

\* C1: for every written day d, column c and position p in
\* 1..RowCountMap[d], output row p of day d carries under c's effective field
\* name the value at position p of the cache of (c's configured name, d),
\* also on days on which c's name transition is active.
C1_RowsCarryCacheValues ==
    \A d \in WrittenDays : \A c \in Cols : \A p \in 1..rows_per_day_map[d] :
        /\ p <= Len(out[d].rows)
        /\ RowField(out[d], p, c) =
              <<get_field_name(Column(c), d, config.num_days),
                Fetched(config.output_format,
                        cache[CacheKey(Column(c), d)].rows[p])>>

\* C2: with at least one configured column, the number of data rows written
\* to day d's file equals RowCountMap[d], in each of the three formats (no run
\* of this specification has a null or zero transition).
C2_RowsWrittenEqualPlan ==
    \A d \in DOMAIN out :
        NumCols >= 1 => Len(out[d].rows) = rows_per_day_map[d]

\* C3: when generate_day_data(d, n, total_days, batch_size) has returned, the
\* cache of (column, d) exists, is closed and holds exactly n values.
C3_ExactCount ==
    \A c \in Cols :
        call[c].pc = "returned" =>
            LET file == cache[CacheKey(Column(c), call[c].day_index)]
            IN  /\ file.exists
                /\ ~file.open
                /\ Len(file.rows) = call[c].num_values

\* A call that returned after a full batch and a shorter last one, on a day
\* with an active transition.
C3_Witness ==
    \E c \in Cols :
        /\ call[c].pc = "returned"
        /\ call[c].num_values = 3
        /\ config.cache_batch_size = 2
        /\ has_transition(Column(c), call[c].day_index, config.num_days,
                          {"NULLS_HIGH"})
        /\ Len(cache[CacheKey(Column(c), call[c].day_index)].rows) = 3

\* The number a cached value stands for, in thousandths.
Thousandths(x) == IF x.k = "int" THEN x.v * Thousand ELSE x.v

\* C4: for a numeric column with INCREMENT distribution and no transition
\* flag, the values generated for a day are 0, 1, ..., n-1 in emission order,
\* whatever the batch size and whether the column is INTEGER or FLOAT.
C4_IncrementSequence ==
    \A c \in Cols :
        ( /\ call[c].pc = "returned"
          /\ has_distribution(Column(c), {"INCREMENT"})
          /\ Column(c).data_type \in {"INTEGER", "FLOAT"}
          /\ Column(c).transition_type = {} )
        => LET rows == cache[CacheKey(Column(c), call[c].day_index)].rows
           IN  \A i \in 1..Len(rows) :
                   IsNumber(rows[i]) /\ Thousandths(rows[i]) = (i - 1) * Thousand

\* The null marker of a format, as a field of an output row.
IsNullField(format, field) ==
    IF format = "csv" THEN field = EmptyStr ELSE field[2] = None

\* C5: in every format and for any number of columns (at least one), no
\* emitted row has every field resolved to the null marker.
C5_AllNullRowsDropped ==
    \A d \in DOMAIN out : \A p \in 1..Len(out[d].rows) :
        Len(out[d].rows[p]) >= 1 =>
            \E i \in 1..Len(out[d].rows[p]) :
                ~IsNullField(out[d].format, out[d].rows[p][i])

\* C6: on the same row counts and the same caches, the CSV writer and the
\* JSON writer emit the same number of data rows for the day.
C6_CsvJsonSameRowCount ==
    handles # NoHandles =>
        LET file(format) == WriteDayFile(format, FieldNames(write_day), handles,
                                         rows_per_day_map[write_day])
        IN  Len(file("csv").rows) = Len(file("json").rows)

\* C7: for an INTEGER column on a day with value scaling active (and no zero,
\* null or string transition), each cached value is the x100-and-truncate
\* coercion of the already scaled sample.
C7_CoercionAfterScaling ==
    \A c \in Cols :
        ( /\ call[c].pc = "returned"
          /\ Column(c).data_type = "INTEGER"
          /\ Column(c).transition_type = {"VALUES_SCALE"}
          /\ has_transition(Column(c), call[c].day_index, config.num_days,
                            {"VALUES_SCALE"}) )
        => LET rows == cache[CacheKey(Column(c), call[c].day_index)].rows
           IN  \A i \in 1..Len(rows) :
                   rows[i] = ConvertValue(ScaleValue(samples[c][i]))

\* The cache of column c for day d is completely written, committed and closed.
CacheComplete(c, d) ==
    LET file == cache[CacheKey(Column(c), d)]
    IN  /\ file.exists
        /\ ~file.open
        /\ file.pending = <<>>
        /\ Len(file.rows) = rows_per_day_map[d]
        /\ call[c].pc = "idle"
        /\ future[c] \in {"none", "done"}

\* C8: in every run, sequential or parallel, when the consolidation of day d
\* begins (the cache connections of day d are opened) every column's cache
\* for day d is completely written, committed and closed.
C8_ConsolidationAfterGeneration ==
    \A d \in Days :
        handles.day_index = d => \A c \in Cols : CacheComplete(c, d)

\* The last day of a two-column parallel run is being consolidated.
C8_Witness ==
    /\ config.max_workers # 1
    /\ NumCols = 2
    /\ config.num_days = 2
    /\ handles.day_index = 1
    /\ \A c \in Cols : future[c] = "done"

\* C9: once the generation of a column has failed on some day, no output
\* file exists for that day (nor for any other) and generate() never reaches
\* the writing of output or its normal return, in either mode.
C9_NoOutputOnColumnFailure ==
    \A c \in Cols :
        call[c].pc = "raised" =>
            /\ call[c].day_index \notin DOMAIN out
            /\ out = <<>>
            /\ pc \in {"generate_seq", "as_completed", "shutdown", "raised"}

\* A parallel run that raised after one column failed and another finished.
C9_Witness ==
    /\ pc = "raised"
    /\ config.max_workers # 1
    /\ \E c \in Cols : call[c].pc = "raised" /\ future[c] = "failed"
    /\ \E c \in Cols : future[c] = "done"

\* C10: in parallel mode, once the orchestrator has seen a worker fail, no
\* column task that has not started yet is started afterwards.
C10_NoStartAfterFailure ==
    [][pc = "shutdown" =>
          \A c \in Cols : future[c] = "pending" => future'[c] = "pending"]_vars

\* The calls that hold the cache file of `key` open for writing.
Writers(key) ==
    {c \in Cols : /\ call[c].pc = "loop"
                  /\ CacheKey(Column(c), call[c].day_index) = key}

\* C11: at every point of a run at most one writer holds the cache of a
\* (column name, day) open, and no cache is open for writing while the
\* consolidation reads it, also when two configured columns share a name.
C11_ExclusiveCacheWriter ==
    \A key \in DOMAIN cache :
        /\ Cardinality(Writers(key)) <= 1
        /\ (handles.day_index = key[2] /\ key[1] \in handles.names)
               => Writers(key) = {}

\* generate() has been called on the configuration.
GenerateCalled ==
    \/ pc \in {"generate", "generate_seq", "as_completed", "shutdown", "write",
               "cleanup", "done"}
    \/ pc = "raised" /\ exc # "ValueError"

\* C12: an unsupported output format raises OutputError and leaves no output
\* file, both when create_writer is called directly with it and when
\* generate() runs on a configuration whose output_format is unsupported
\* (and fails for no other reason).
C12_UnsupportedFormatRaisesOutputError ==
    /\ \A q \in DOMAIN ret :
          (q[1] = "create_writer" /\ q[5] \cap SupportedFormats = {})
              => ret[q] = "OutputError" /\ out = <<>>
    /\ ( /\ GenerateCalled
          /\ pc = "raised"
          /\ faults = 0
          /\ config.output_format \notin SupportedFormats )
          => exc = "OutputError" /\ out = <<>>

\* What the specification calls a valid configuration: fractions in [0, 1],
\* a supported format, positive numbers of days, of rows per day and of
\* values per batch.
ValidConfiguration ==
    /\ \A c \in Cols : Column(c).transition_percentage \in 0..100
    /\ config.output_format \in SupportedFormats
    /\ config.num_days > 0
    /\ config.approx_rows_per_day > 0
    /\ config.cache_batch_size > 0
    /\ config.row_variation_percentage \in 0..100

\* C13: generate() never runs with a configuration that holds an invalid
\* value: every such value is rejected when the configuration is constructed.
C13_InvalidNeverReachesGeneration == GenerateCalled => ValidConfiguration

\* Day d is at or after floor(total_days * fraction), the fraction being
\* given in hundredths: d >= floor(x) iff d + 1 > x.
AtOrAfterThreshold(d, total_days, hundredths) == 100 * (d + 1) > total_days * hundredths

\* The has_transition calls made so far.
TransitionQueries == {q \in DOMAIN ret : q[1] = "has_transition"}

\* C14: has_transition(d, total_days, flag) is true exactly when the flag is
\* one of the column's transition flags and d >= floor(total_days * fraction),
\* whatever other flags the column has.
C14_HasTransitionIff ==
    \A q \in TransitionQueries :
        ret[q] <=> /\ q[5] \subseteq Column(q[2]).transition_type
                   /\ AtOrAfterThreshold(q[3], q[4], Column(q[2]).transition_percentage)

\* A column with two flags was asked, on a day after its threshold, for a
\* flag it has and for one it has not.
C14_Witness ==
    \E q1, q2 \in TransitionQueries :
        /\ q1[2] = q2[2] /\ q1[3] = q2[3] /\ q1[3] >= 1
        /\ Cardinality(Column(q1[2]).transition_type) = 2
        /\ Column(q1[2]).transition_percentage = 50
        /\ ret[q1] /\ ~ret[q2]

\* C15: for a fixed column, total_days and flag, a transition that is active
\* on day d is active on every later day.
C15_ActivationMonotonic ==
    \A q1, q2 \in TransitionQueries :
        ( /\ q1[2] = q2[2] /\ q1[4] = q2[4] /\ q1[5] = q2[5]
          /\ q1[3] < q2[3]
          /\ ret[q1] )
        => ret[q2]

\* Over 4 days a flag was inactive on day 1, active on day 2 and on day 3.
C15_Witness ==
    \E q1, q2, q3 \in TransitionQueries :
        /\ q1[2] = q2[2] /\ q2[2] = q3[2]
        /\ q1[5] = q2[5] /\ q2[5] = q3[5]
        /\ q1[4] = 4 /\ q1[3] = 1 /\ q2[3] = 2 /\ q3[3] = 3
        /\ ~ret[q1] /\ ret[q2] /\ ret[q3]

\* The get_field_name calls made so far.
FieldNameQueries == {q \in DOMAIN ret : q[1] = "get_field_name"}

\* C16: the field name of column c on day d is "new-<name>" when c's own
\* SCHEMA_NAME flag is set and d >= floor(total_days * c's fraction), and the
\* configured name otherwise, whatever the other column is.
C16_EffectiveFieldName ==
    \A q \in FieldNameQueries :
        ret[q] = IF /\ "SCHEMA_NAME" \in Column(q[2]).transition_type
                    /\ AtOrAfterThreshold(q[3], q[4],
                                          Column(q[2]).transition_percentage)
                 THEN "new-" \o Column(q[2]).name
                 ELSE Column(q[2]).name

\* Fraction 0.5 with SCHEMA_NAME over 4 days: the name is unchanged on days
\* 0 and 1 and prefixed on days 2 and 3, next to a column that keeps its
\* name on day 3.
C16_Witness ==
    /\ config.num_days = 4
    /\ Column(1).transition_percentage = 50
    /\ "SCHEMA_NAME" \in Column(1).transition_type
    /\ \A d \in 0..3 : <<"get_field_name", 1, d, 4, {}>> \in DOMAIN ret
    /\ <<"get_field_name", 2, 3, 4, {}>> \in DOMAIN ret
    /\ ret[<<"get_field_name", 1, 0, 4, {}>>] = "id"
    /\ ret[<<"get_field_name", 1, 1, 4, {}>>] = "id"
    /\ ret[<<"get_field_name", 1, 2, 4, {}>>] = "new-id"
    /\ ret[<<"get_field_name", 1, 3, 4, {}>>] = "new-id"
    /\ ret[<<"get_field_name", 2, 3, 4, {}>>] = "value"

\* generate() has not created the row count map yet.
BeforePlanning == pc = "start"

\* C17: once the planner has run, the row count map has exactly one entry
\* for each day 0..num_days-1, each an integer >= 1; it is created before any
\* column generation begins and no later step of the run changes it.
C17_RowCountMapFixed ==
    /\ [](~BeforePlanning =>
             /\ DOMAIN rows_per_day_map = Days
             /\ \A d \in Days : rows_per_day_map[d] \in Nat \ {0})
    /\ [](BeforePlanning =>
             /\ \A c \in Cols : call[c].pc = "idle" /\ future[c] = "none"
             /\ \A key \in DOMAIN cache : cache[key] = NoCache)
    /\ [][~BeforePlanning => rows_per_day_map' = rows_per_day_map]_vars

\* A two-day, two-column run has returned; day 0 has the clamped minimum.
C17_Witness ==
    /\ pc = "done"
    /\ NumCols = 2
    /\ config.num_days = 2
    /\ rows_per_day_map[0] = 1
    /\ rows_per_day_map[1] = MaxRows
    /\ metrics.files_written = 2

RECURSIVE SumOverDays(_, _)
\* The sum of count[d] over the days d < n.
SumOverDays(count, n) == IF n <= 0 THEN 0 ELSE count[n - 1] + SumOverDays(count, n - 1)

\* C18: after a successful generate(), files_written = num_days,
\* errors_encountered = 0, total_columns is the number of configured columns,
\* and total_rows_generated is the sum of the row count map, which is the
\* number of data rows actually written to the output files.
C18_MetricsAfterSuccess ==
    pc = "done" =>
        /\ metrics.files_written = config.num_days
        /\ metrics.errors_encountered = 0
        /\ metrics.total_columns = NumCols
        /\ metrics.total_rows_generated = SumOverDays(rows_per_day_map, config.num_days)
        /\ metrics.total_rows_generated =
              SumOverDays([d \in Days |-> Len(out[d].rows)], config.num_days)

\* What generate_day_data stores for the raw sample x of a column without a
\* random transition.
Stored(col, x, day_index) ==
    LET rnd == CHOOSE r \in Draws(col, day_index, config.num_days, 1) : TRUE
    IN  BatchValues(col, <<x>>, day_index, config.num_days, rnd)[1]

\* The values the running or last call of column c has generated, in the
\* order in which it generated them.
GeneratedValues(c, day_index) ==
    [i \in 1..Len(samples[c]) |-> Stored(Column(c), samples[c][i], day_index)]

\* C19: a call of generate_day_data starts from an empty cache whatever an
\* earlier call left for the same (column, day): in the loop the file holds
\* no committed row, and after the return it holds exactly the n2 values this
\* call generated, in order, and nothing of the earlier generation.
C19_StaleCacheReplaced ==
    \A c \in Cols :
        LET file == cache[CacheKey(Column(c), call[c].day_index)]
        IN  /\ call[c].pc = "loop" =>
                  /\ file.rows = <<>>
                  /\ file.pending = GeneratedValues(c, call[c].day_index)
            /\ call[c].pc = "returned" =>
                  /\ Len(file.rows) = call[c].num_values
                  /\ file.rows = GeneratedValues(c, call[c].day_index)

\* The second call for a key has returned with fewer values than the first.
C19_Witness ==
    \E c \in Cols :
        /\ call[c].pc = "returned"
        /\ GeneratedCounts(c, call[c].day_index) = <<MaxValues>>
        /\ call[c].num_values = 1
        /\ Len(cache[CacheKey(Column(c), call[c].day_index)].rows) = 1

\* The single-row reads made so far.
RowReads == {q \in DOMAIN ret : q[1] = "_get_data_row"}

\* C20: a read of a closed cache of k values at position p returns the p-th
\* value in append order for p in 1..k, also when the values were appended in
\* several batches, and the null marker for p = 0 and for p > k.
C20_PositionalRead ==
    \A q \in RowReads :
        LET c == q[2]
            p == ret[q].row_index
            k == Len(GeneratedCounts(c, q[3]))
            n == IF k = 0 THEN 0 ELSE GeneratedCounts(c, q[3])[k]
            last == \A r \in DOMAIN ret : r[1] = "generate_day_data" => r[3] = q[3]
        IN  /\ p \in 1..n /\ last =>
                  ret[q].row = <<Fetched(config.output_format,
                                         GeneratedValues(c, q[3])[p])>>
            /\ p \notin 1..n =>
                  ret[q].row = <<NoneValue(config.output_format)>>

\* The third value of a cache written in batches of two was read.
C20_Witness ==
    \E q \in RowReads :
        /\ config.cache_batch_size = 2
        /\ GeneratedCounts(q[2], q[3]) = <<3>>
        /\ ret[q].row_index = 3
        /\ ret[q].row # <<NoneValue(config.output_format)>>

\* The exit status main() has returned, -1 while it has not returned.
MainStatus ==
    LET q == <<"main", 0, 0, config.num_days, {}>>
    IN  IF q \in DOMAIN ret THEN ret[q] ELSE -1

\* Every day's output file exists and every column's generation was counted;
\* while nothing has removed a cache, every column's cache of every day is
\* complete.
WholeRun ==
    /\ DOMAIN out = Days
    /\ metrics.files_written = config.num_days
    /\ metrics.cache_operations = NumCols * config.num_days
    /\ (faults = 0 /\ (pc = "done" => ~config.cleanup_cache)) =>
          \A c \in Cols, d \in Days : CacheComplete(c, d)

\* C21: generate() returns normally only after every column was generated
\* for every day and every day's output file was written; otherwise it raises
\* DataGenerationError with errors_encountered >= 1; main() returns 0 only in
\* the former case.
C21_NoPartialSuccess ==
    /\ pc \in {"cleanup", "done"} => WholeRun /\ exc = "none"
    /\ pc = "done" => metrics.errors_encountered = 0
    /\ pc = "raised" => exc = "DataGenerationError" /\ metrics.errors_encountered >= 1
    /\ pc \notin {"done", "raised"} => MainStatus = -1
    /\ MainStatus = 0 => pc = "done" /\ WholeRun
    /\ (MainStatus # -1 /\ pc = "raised") => MainStatus = 1

\* main() has returned 1 after a run that wrote the first day's file and
\* failed on the second day.
C21_Witness ==
    /\ MainStatus = 1
    /\ pc = "raised"
    /\ DOMAIN out = {0}
    /\ config.num_days = 2

\* Some column's cache of the day the write loop is at is missing.
CacheMissing ==
    /\ write_day \in Days
    /\ \E c \in Cols : ~cache[CacheKey(Column(c), write_day)].exists

C30_ErrorsCountedOnce ==
    (pc = "raised" /\ faults = 1) => metrics.errors_encountered = 1

\* The metrics of a successful run, from the configuration without
\* max_workers and the row count map.
MetricsOfPlan ==
    [total_rows_generated |-> SumOverDays(rows_per_day_map, config.num_days),
     total_columns |-> NumCols,
     cache_operations |-> NumCols * config.num_days,
     files_written |-> config.num_days,
     errors_encountered |-> 0]

C22_ValidationFindsNoIssue ==
    \A q \in DOMAIN ret :
        (q[1] = "validate_generated_data" /\ NumCols >= 1) =>
            /\ ret[q] = <<>>
            /\ \A d \in Days : d \in DOMAIN out /\ ~EmptyFile(out[d])
            /\ metrics.total_rows_generated > 0
            /\ metrics.files_written = config.num_days

\* The caches of the configured columns.
ConfiguredCaches == {CacheKey(Column(c), d) : c \in Cols, d \in Days}

\* C24: no (column, day) cache is deleted before the output file of day d is
\* written; after a successful run no cache of a configured column remains
\* when cleanup_cache is enabled, and every one remains when it is disabled.
C24_CacheRetentionPolicy ==
    /\ [][\A key \in ConfiguredCaches :
            (cache[key].exists /\ ~cache'[key].exists) => key[2] \in DOMAIN out]_vars
    /\ [](pc = "done" =>
            \A key \in ConfiguredCaches :
                cache[key].exists <=> ~config.cleanup_cache)

\* C25: the file of day d of N days is stamped at now - (N - d - 1) days,
\* now being the time of the stamping: the last day's file at the current
\* time, and the file of a smaller day never later than that of a larger day.
C25_BackDatedTimestamps ==
    /\ [][\A d \in DOMAIN utime' \ DOMAIN utime :
            /\ d \in DOMAIN out'
            /\ utime'[d] = now - (config.num_days - d - 1) * SecondsPerDay
            /\ d = config.num_days - 1 => utime'[d] = now]_vars
    /\ [](\A d \in DOMAIN utime, e \in DOMAIN utime : d < e => utime[d] <= utime[e])
    /\ [](pc = "done" => DOMAIN utime = Days)

\* Both days are stamped, the second one a day after the first was.
C25_Witness ==
    /\ DOMAIN utime = {0, 1}
    /\ config.num_days = 2
    /\ utime[0] = (SecondsPerDay \div 2) - SecondsPerDay
    /\ utime[1] = SecondsPerDay + (SecondsPerDay \div 2)

StringFlags == {"VALUES_SOME_STRINGS", "VALUES_ALL_STRINGS"}

\* No random replacement of values is configured for the column.
NoRandomReplacement(col) == col.transition_type \cap {"ZEROS_HIGH", "NULLS_HIGH"} = {}

\* The value the raw sample x has when the string transitions are reached,
\* for a column without random replacement.
BeforeStrings(col, x, day_index) ==
    Stored([col EXCEPT !.transition_type = @ \ StringFlags], x, day_index)

\* The values call c has inserted so far, committed or not.
Inserted(c) ==
    LET file == cache[CacheKey(Column(c), call[c].day_index)]
    IN  file.rows \o file.pending

\* C26: on a day on which both string transitions are active every value is
\* left as it is or becomes 'sometimes-<value>' and none gets the 'all-'
\* prefix; on a day on which only 'all values become strings' is active every
\* value becomes 'all-<value>'.
C26_StringTransitionsExclusive ==
    \A c \in Cols :
        call[c].pc \in {"loop", "returned"} =>
            LET col == Column(c)
                day == call[c].day_index
                active(flag) == has_transition(col, day, config.num_days, {flag})
                values == Inserted(c)
            IN  /\ Len(values) = Len(samples[c])
                /\ \A i \in 1..Len(values) :
                      LET base == BeforeStrings(col, samples[c][i], day)
                      IN  /\ active("VALUES_SOME_STRINGS") /\ active("VALUES_ALL_STRINGS") =>
                                /\ values[i].pre \in {"", "sometimes-"}
                                /\ NoRandomReplacement(col) =>
                                      values[i] \in {base, Prefixed("sometimes-", base)}
                          /\ active("VALUES_ALL_STRINGS") /\ ~active("VALUES_SOME_STRINGS") =>
                                /\ values[i].pre = "all-"
                                /\ NoRandomReplacement(col) =>
                                      values[i] = Prefixed("all-", base)

\* A call of a column with both string flags active has returned with one
\* value left as it was and one turned into 'sometimes-<value>'.
C26_Witness ==
    \E c \in Cols :
        /\ call[c].pc = "returned"
        /\ StringFlags \subseteq Column(c).transition_type
        /\ has_transition(Column(c), call[c].day_index, config.num_days,
                          {"VALUES_ALL_STRINGS"})
        /\ \E i, j \in 1..Len(Inserted(c)) :
              /\ Inserted(c)[i].pre = "sometimes-"
              /\ Inserted(c)[j] = BeforeStrings(Column(c), samples[c][j], call[c].day_index)
              /\ Inserted(c)[j].pre = ""

\* C27: generate_day_data terminates for every target count and every batch
\* size the configuration accepts: the call returns (or raises) after
\* finitely many batches.
C27_GenerateDayDataTerminates ==
    <>(call[1].pc \in {"returned", "raised"})

\* The index of the first line feed after the offset the call has sought to,
\* 0 if there is none.
FirstBoundary ==
    LET feeds == {j \in (english.start + 1)..Len(english.data) : english.data[j] = "LF"}
    IN  IF feeds = {} THEN 0 ELSE CHOOSE j \in feeds : \A k \in feeds : j <= k

\* C28: _get_random_word ends in one of three ways: it returns the line that
\* follows the first line boundary after the random offset, it returns the
\* sentinel when bytes cannot be decoded, or it exits the process after more
\* than 1000 reads that found no line boundary (the end of the file
\* included).
C28_ThreeOutcomes ==
    english.pc = "over" =>
        \/ /\ english.outcome = "returned"
           /\ FirstBoundary > 0
           /\ english.line =
                 SubSeq(english.data, FirstBoundary + 1,
                        LineEnd(english.data, FirstBoundary)
                          - (IF english.data[LineEnd(english.data, FirstBoundary)] = "LF"
                                /\ LineEnd(english.data, FirstBoundary) > FirstBoundary
                             THEN 1 ELSE 0))
        \/ /\ english.outcome = "UnicodeIsFun"
           /\ Undecodable(english.data, english.start, Len(english.data))
        \/ /\ english.outcome = "os._exit(2)"
           /\ english.i > GiveUpAfter
           /\ FirstBoundary = 0

====
